---- MODULE Spec2Model ----
(***************************************************************************)
(* Model of tools/src/commands/CreateBareProject.ts (the create-bare-      *)
(* project command): package selection, project scaffolding, prebuild with *)
(* a packed template archive, and the rewrite of the project's manifest.   *)
(*                                                                         *)
(* Strings are sequences of characters.  The alphabet holds the characters *)
(* the code inspects ("/", ".", ",", " ") and word glyphs, each standing   *)
(* for a run of ordinary name characters ("expo-camera", "packages").      *)
(***************************************************************************)
EXTENDS Naturals, Sequences, FiniteSets

VARIABLES
    options,              \* ActionOptions: name, packages, workingDirectory
    catalog,              \* the workspace's packages, in listing order
    changedFiles,         \* what the version-control query reports
    templateManifest,     \* the package.json the project template installs
    workDirFiles,         \* archives expo-template-bare-minimum-<n>.tgz in the working directory
    appJson,              \* the project's app.json: "absent", "template" or "merged"
    manifest,             \* the project's package.json on disk
    pc,                   \* the await at which the command is suspended
    extraPackages,        \* action's local: the result of getExtraPackagesAsync
    bareTemplateTarball,  \* prebuildProjectAsync's local: the archive found (0: none yet)
    installPackages,      \* prebuildProjectAsync's local: the packages to point at local paths
    pending,              \* the error thrown inside try, held while finally runs
    error,                \* the error action() rejected with ("none": not rejected)
    calls,                \* every call made to a collaborator, in order
    running               \* the asynchronous calls in flight

vars == <<options, catalog, changedFiles, templateManifest, workDirFiles, appJson,
          manifest, pc, extraPackages, bareTemplateTarball, installPackages,
          pending, error, calls, running>>

----------------------------------------------------------------------------
(* Bounds of the model *)

\* longest dependency list of the entry package
MaxDeps == 2
\* most changed files one version-control query reports
MaxFiles == 2
\* most characters of an explicit --packages string
MaxListLen == 3
\* highest archive version that may already lie in the working directory
MaxArchive == 3

----------------------------------------------------------------------------
(* Strings *)

Range(s) == {s[i] : i \in 1..Len(s)}

NoDuplicates(s) == \A i, j \in 1..Len(s) : s[i] = s[j] => i = j

\* String.prototype.startsWith
StartsWith(s, prefix) ==
    Len(s) >= Len(prefix) /\ SubSeq(s, 1, Len(prefix)) = prefix

\* String.prototype.split with a one-character separator: the pieces between
\* separators, empty pieces included ("a," gives "a" and "")
RECURSIVE SplitFrom(_, _, _, _)
SplitFrom(s, sep, i, piece) ==
    IF i > Len(s) THEN <<piece>>
    ELSE IF s[i] = sep THEN <<piece>> \o SplitFrom(s, sep, i + 1, <<>>)
    ELSE SplitFrom(s, sep, i + 1, Append(piece, s[i]))

Split(s, sep) == SplitFrom(s, sep, 1, <<>>)

\* Array.prototype.join
RECURSIVE JoinFrom(_, _, _)
JoinFrom(pieces, sep, i) ==
    IF i > Len(pieces) THEN <<>>
    ELSE IF i = Len(pieces) THEN pieces[i]
    ELSE pieces[i] \o <<sep>> \o JoinFrom(pieces, sep, i + 1)

Join(pieces, sep) == JoinFrom(pieces, sep, 1)

\* String.prototype.trim: drops leading and trailing whitespace
RECURSIVE TrimStart(_)
TrimStart(s) ==
    IF s # <<>> /\ s[1] = " " THEN TrimStart(Tail(s)) ELSE s

RECURSIVE TrimEnd(_)
TrimEnd(s) ==
    IF s # <<>> /\ s[Len(s)] = " " THEN TrimEnd(SubSeq(s, 1, Len(s) - 1)) ELSE s

Trim(s) == TrimEnd(TrimStart(s))

----------------------------------------------------------------------------
(* Paths (node's posix `path` module) *)

DotDot == <<".", ".">>

\* process.cwd()
Cwd == <<"/", "cwd">>

\* getExpoRepositoryRootDir()
RootDir == <<"/", "repo">>

\* path.isAbsolute
IsAbsolute(p) == p # <<>> /\ p[1] = "/"

\* normalisation of a list of segments: empty and "." segments are dropped,
\* a ".." segment removes the segment before it (none above the root)
RECURSIVE NormalizeSegments(_, _)
NormalizeSegments(segments, acc) ==
    IF segments = <<>> THEN acc
    ELSE LET seg == Head(segments) IN
         IF seg = <<>> \/ seg = <<".">> THEN NormalizeSegments(Tail(segments), acc)
         ELSE IF seg = DotDot
              THEN NormalizeSegments(Tail(segments),
                       IF acc = <<>> THEN acc ELSE SubSeq(acc, 1, Len(acc) - 1))
              ELSE NormalizeSegments(Tail(segments), Append(acc, seg))

\* path.resolve(p): the segments of the absolute path p denotes
Resolve(p) ==
    IF IsAbsolute(p) THEN NormalizeSegments(Split(p, "/"), <<>>)
    ELSE NormalizeSegments(Split(Cwd, "/") \o Split(p, "/"), <<>>)

RECURSIVE CommonPrefixLen(_, _)
CommonPrefixLen(a, b) ==
    IF a # <<>> /\ b # <<>> /\ Head(a) = Head(b)
    THEN 1 + CommonPrefixLen(Tail(a), Tail(b))
    ELSE 0

\* path.relative(from, to)
Relative(from, to) ==
    LET f == Resolve(from)
        t == Resolve(to)
        k == CommonPrefixLen(f, t)
        ups == [i \in 1..(Len(f) - k) |-> DotDot]
    IN Join(ups \o SubSeq(t, k + 1, Len(t)), "/")

\* path.join(dir, name) for an absolute dir
PathJoin(dir, name) ==
    <<"/">> \o Join(NormalizeSegments(Split(dir, "/") \o Split(name, "/"), <<>>), "/")

----------------------------------------------------------------------------
(* Package selection *)

Name(word) == <<word>>

EXCLUDED_PACKAGES ==
    << Name("expo-module-template"), Name("workspace-template"), Name("first-package"),
       Name("second-package"), Name("unimodules-test-core") >>

\* Array.prototype.includes
Includes(array, x) == x \in Range(array)

\* Array.prototype.map(pkg => pkg.packageName)
PackageNames(packages) == [i \in 1..Len(packages) |-> packages[i].packageName]

\* Packages.getPackageByName: whether the catalog holds a package of that name
HasPackage(packages, name) == \E i \in 1..Len(packages) : packages[i].packageName = name

\* Packages.getPackageByName: the package of that name
getPackageByName(packages, name) ==
    packages[CHOOSE i \in 1..Len(packages) :
                /\ packages[i].packageName = name
                /\ \A j \in 1..(i - 1) : packages[j].packageName # name]

\* getExpoTransitivePackages, when the `expo` package exists
getExpoTransitivePackages(packages) ==
    getPackageByName(packages, Name("expo")).dependencies

\* the test of line 225: the changed file lies inside the package's path
IsInsidePackage(file, pkg) ==
    LET pkgRelativePath == Relative(RootDir, pkg.path)
        relativePath == Relative(pkgRelativePath, file)
    IN /\ relativePath # <<>>
       /\ ~StartsWith(relativePath, DotDot)
       /\ ~IsAbsolute(relativePath)

\* the inner loop of getChangedPackagesAsync: the packages one file adds
RECURSIVE PackagesOfFile(_, _)
PackagesOfFile(file, packages) ==
    IF packages = <<>> THEN <<>>
    ELSE (IF IsInsidePackage(file, Head(packages))
          THEN <<Head(packages).packageName>> ELSE <<>>)
         \o PackagesOfFile(file, Tail(packages))

RECURSIVE getChangedPackagesAsync(_, _)
getChangedPackagesAsync(packages, files) ==
    IF files = <<>> THEN <<>>
    ELSE PackagesOfFile(Head(files), packages)
         \o getChangedPackagesAsync(packages, Tail(files))

\* the `all` branch of getExtraPackagesAsync
AllPackages(packages) ==
    LET Keep(packageName) ==
            packageName # <<>> /\ ~Includes(EXCLUDED_PACKAGES, packageName)
    IN SelectSeq(PackageNames(packages), Keep)

\* the list split but not trimmed
ExplicitPackages_NoTrim(packages) == Split(packages, ",")

\* the last branch of getExtraPackagesAsync: a comma-separated list
ExplicitPackages(packages) ==
    LET pieces == Split(packages, ",")
    IN [i \in 1..Len(pieces) |-> Trim(pieces[i])]

\* what getExtraPackagesAsync puts in its local extraPackages
ModePackages(packages, allPackages, files) ==
    IF packages = Name("default") THEN <<>>
    ELSE IF packages = Name("all") THEN AllPackages(allPackages)
    ELSE IF packages = Name("changed") THEN getChangedPackagesAsync(allPackages, files)
    ELSE ExplicitPackages(packages)

\* an either/or selection: the floor only in `default` mode
getExtraPackagesAsync_EitherOr(packages, allPackages, files) ==
    IF packages = Name("default") THEN getExpoTransitivePackages(allPackages)
    ELSE ModePackages(packages, allPackages, files)

\* the return value of getExtraPackagesAsync
getExtraPackagesAsync(packages, allPackages, files) ==
    getExpoTransitivePackages(allPackages) \o ModePackages(packages, allPackages, files)

----------------------------------------------------------------------------
(* The project manifest (package.json) *)

\* JSON objects keep their keys in insertion order: a sequence of entries
Keys(object) == [i \in 1..Len(object) |-> object[i].key]

HasKey(object, key) == \E i \in 1..Len(object) : object[i].key = key

Get(object, key) == object[CHOOSE i \in 1..Len(object) : object[i].key = key].value

\* object[key] = value
Put(object, key, value) ==
    IF HasKey(object, key)
    THEN [i \in 1..Len(object) |->
             IF object[i].key = key THEN [key |-> key, value |-> value] ELSE object[i]]
    ELSE Append(object, [key |-> key, value |-> value])

NoManifest ==
    [exists |-> FALSE, hasDependencies |-> FALSE, dependencies |-> <<>>,
     hasResolutions |-> FALSE, resolutions |-> <<>>]

\* allPackageMap[name] of lines 142-145: the last package listed under the name
MappedPackage(packages, name) ==
    packages[CHOOSE i \in 1..Len(packages) :
                /\ packages[i].packageName = name
                /\ \A j \in (i + 1)..Len(packages) : packages[j].packageName # name]

\* an array where the code builds a Set: repeated elements stay
SetOf_Array(array, acc) == acc \o array

\* new Set(array): the array's elements in order of first occurrence
RECURSIVE SetOf(_, _)
SetOf(array, acc) ==
    IF array = <<>> THEN acc
    ELSE SetOf(Tail(array),
               IF Includes(acc, Head(array)) THEN acc ELSE Append(acc, Head(array)))

\* an install set that takes the whole catalog, whatever was asked for
InstallPackages_WholeCatalog(json, packages, extraInstallPackages) == packages

\* installPackages of lines 148-152
InstallPackages(json, packages, extraInstallPackages) ==
    LET names == Keys(json.dependencies) \o extraInstallPackages
        InCatalog(name) == HasPackage(packages, name)
        eligible == SelectSeq(names, InCatalog)
    IN SetOf([i \in 1..Len(eligible) |-> MappedPackage(packages, eligible[i])], <<>>)

\* the loop without line 161: `resolutions` is not set
RECURSIVE SetLocalPaths_DependenciesOnly(_, _, _)
SetLocalPaths_DependenciesOnly(json, pkgs, projectDir) ==
    IF pkgs = <<>> THEN json
    ELSE LET pkg == Head(pkgs)
             relativePath == Relative(projectDir, pkg.path)
         IN SetLocalPaths_DependenciesOnly(
                [json EXCEPT !.dependencies = Put(@, pkg.packageName, relativePath)],
                Tail(pkgs), projectDir)

\* the loop of lines 156-162
RECURSIVE SetLocalPaths(_, _, _)
SetLocalPaths(json, pkgs, projectDir) ==
    IF pkgs = <<>> THEN json
    ELSE LET pkg == Head(pkgs)
             relativePath == Relative(projectDir, pkg.path)
         IN SetLocalPaths(
                [json EXCEPT
                    !.dependencies = Put(@, pkg.packageName, relativePath),
                    !.resolutions = Put(@, pkg.packageName, relativePath)],
                Tail(pkgs), projectDir)

\* a rewrite that starts from empty objects and so drops what the manifest held
RewrittenManifest_Replace(json, pkgs, projectDir) ==
    SetLocalPaths([json EXCEPT !.hasResolutions = TRUE,
                               !.dependencies = <<>>, !.resolutions = <<>>],
                  pkgs, projectDir)

\* lines 155-164: the manifest object that is written back
RewrittenManifest(json, pkgs, projectDir) ==
    SetLocalPaths([json EXCEPT !.hasResolutions = TRUE], pkgs, projectDir)

----------------------------------------------------------------------------
(* The command: one action per stretch of code between two awaits *)

\* npm pack names the archive after the template's version
PackedArchive == 2

\* glob lists its matches in sorted order
RECURSIVE Sorted(_)
Sorted(S) ==
    IF S = {} THEN <<>>
    ELSE LET least == CHOOSE x \in S : \A y \in S : x <= y
         IN <<least>> \o Sorted(S \ {least})

\* a call to a collaborator, as the log keeps it: what is called, the source
\* line of the call, the archive it is given (0: none) and how it ended
Call(op, line, arg, result) == [op |-> op, line |-> line, arg |-> arg, result |-> result]

\* the log once the call in flight has returned
Returned(result) == [calls EXCEPT ![Len(calls)].result = result]

\* an asynchronous call starts: the code suspends at its await
Await(log, op, line, arg, at) ==
    /\ calls' = Append(log, Call(op, line, arg, "pending"))
    /\ running' = {op}
    /\ pc' = at

\* action() rejects
Reject(log, err) ==
    /\ calls' = log
    /\ running' = {}
    /\ pc' = "failed"
    /\ error' = err

\* path.join(workDir, name)
ProjectDir == PathJoin(options.workingDirectory, options.name)

\* createManagedProjectAsync without the await of line 40: the prebuild's first
\* call starts while `expo init` is still running
CreateManagedProject_NotAwaited(log) ==
    /\ calls' = log \o << Call("expo init", 84, 0, "pending"),
                           Call("JsonFile.mergeAsync", 106, 0, "pending") >>
    /\ running' = {"expo init", "JsonFile.mergeAsync"}
    /\ pc' = "await_merge"

\* lines 39-40 and 78-86: createManagedProjectAsync starts `expo init`
CreateManagedProject(log) == Await(log, "expo init", 84, 0, "await_init")

\* a name test that only catches the absent name: options.name === null
MissingName_NullOnly(opts) == ~opts.nameGiven

\* line 33: !options.name
MissingName(opts) == ~opts.nameGiven \/ opts.name = <<>>

\* action() with the entry package looked up at line 209 only, after the
\* mode's own work
Action_LateEntryCheck ==
    /\ pc = "start"
    /\ UNCHANGED <<options, catalog, changedFiles, templateManifest, workDirFiles,
                   appJson, manifest, bareTemplateTarball, installPackages, pending>>
    /\ IF MissingName(options)
       THEN Reject(calls, "Missing project name") /\ UNCHANGED extraPackages
       ELSE IF options.packages = Name("all")
       THEN /\ Await(calls, "getListOfPackagesAsync", 199, 0, "await_all_list")
            /\ UNCHANGED <<extraPackages, error>>
       ELSE IF options.packages = Name("changed")
       THEN /\ Await(calls, "getListOfPackagesAsync", 218, 0, "await_changed_list")
            /\ UNCHANGED <<extraPackages, error>>
       ELSE IF ~HasPackage(catalog, Name("expo"))
       THEN /\ Reject(Append(calls, Call("getPackageByName", 173, 0, "absent")),
                      "Cannot find the expo package")
            /\ UNCHANGED extraPackages
       ELSE /\ extraPackages' =
                   getExtraPackagesAsync(options.packages, catalog, changedFiles)
            /\ CreateManagedProject(Append(calls, Call("getPackageByName", 173, 0, "ok")))
            /\ UNCHANGED error

\* lines 32-37 and 191-207, up to the first await
Action ==
    /\ pc = "start"
    /\ UNCHANGED <<options, catalog, changedFiles, templateManifest, workDirFiles,
                   appJson, manifest, bareTemplateTarball, installPackages, pending>>
    /\ IF MissingName(options)
       THEN Reject(calls, "Missing project name") /\ UNCHANGED extraPackages
       ELSE IF ~HasPackage(catalog, Name("expo"))
       THEN /\ Reject(Append(calls, Call("getPackageByName", 173, 0, "absent")),
                      "Cannot find the expo package")
            /\ UNCHANGED extraPackages
       ELSE LET log == Append(calls, Call("getPackageByName", 173, 0, "ok")) IN
            IF options.packages = Name("all")
            THEN /\ Await(log, "getListOfPackagesAsync", 199, 0, "await_all_list")
                 /\ UNCHANGED <<extraPackages, error>>
            ELSE IF options.packages = Name("changed")
            THEN /\ Await(log, "getListOfPackagesAsync", 218, 0, "await_changed_list")
                 /\ UNCHANGED <<extraPackages, error>>
            ELSE /\ extraPackages' =
                        getExtraPackagesAsync(options.packages, catalog, changedFiles)
                 /\ CreateManagedProject(log)
                 /\ UNCHANGED error

\* lines 199-202 and 209: the catalog listing of the `all` branch returns
AllListReturns ==
    /\ pc = "await_all_list"
    /\ UNCHANGED <<options, catalog, changedFiles, templateManifest, workDirFiles,
                   appJson, manifest, bareTemplateTarball, installPackages, pending>>
    /\ \E ok \in BOOLEAN :
          IF ok
          THEN /\ extraPackages' =
                      getExtraPackagesAsync(options.packages, catalog, changedFiles)
               /\ CreateManagedProject(Returned("ok"))
               /\ UNCHANGED error
          ELSE Reject(Returned("failed"), "getListOfPackagesAsync failed")
               /\ UNCHANGED extraPackages

\* lines 218-219: the catalog listing of getChangedPackagesAsync returns
ChangedListReturns ==
    /\ pc = "await_changed_list"
    /\ UNCHANGED <<options, catalog, changedFiles, templateManifest, workDirFiles,
                   appJson, manifest, bareTemplateTarball, installPackages, pending, extraPackages>>
    /\ \E ok \in BOOLEAN :
          IF ok
          THEN /\ Await(Returned("ok"), "Git.getChangedFilesAsync", 219, 0,
                     "await_changed_files")
               /\ UNCHANGED error
          ELSE Reject(Returned("failed"), "getListOfPackagesAsync failed")

\* lines 219-230 and 209: the version-control query returns
ChangedFilesReturn ==
    /\ pc = "await_changed_files"
    /\ UNCHANGED <<options, catalog, changedFiles, templateManifest, workDirFiles,
                   appJson, manifest, bareTemplateTarball, installPackages, pending>>
    /\ \E ok \in BOOLEAN :
          IF ok
          THEN /\ extraPackages' =
                      getExtraPackagesAsync(options.packages, catalog, changedFiles)
               /\ CreateManagedProject(Returned("ok"))
               /\ UNCHANGED error
          ELSE Reject(Returned("failed"), "Git.getChangedFilesAsync failed")
               /\ UNCHANGED extraPackages

\* lines 84-88, 42-43 and 105-111: `expo init` returns; prebuildProjectAsync
\* starts with the merge into app.json
InitReturns ==
    /\ pc = "await_init"
    /\ UNCHANGED <<options, catalog, changedFiles, templateManifest, workDirFiles,
                   extraPackages, bareTemplateTarball, installPackages, pending>>
    /\ \E ok \in BOOLEAN :
          IF ok
          THEN /\ manifest' = templateManifest
               /\ appJson' = "template"
               /\ Await(Returned("ok"), "JsonFile.mergeAsync", 106, 0, "await_merge")
               /\ UNCHANGED error
          ELSE Reject(Returned("failed"), "expo init failed")
               /\ UNCHANGED <<manifest, appJson>>

\* lines 106-118: the merge returns; npm pack starts
MergeReturns ==
    /\ pc = "await_merge"
    /\ UNCHANGED <<options, catalog, changedFiles, templateManifest, workDirFiles,
                   manifest, extraPackages, bareTemplateTarball, installPackages, pending>>
    /\ \E ok \in BOOLEAN :
          IF ok
          THEN /\ appJson' = "merged"
               /\ Await(Returned("ok"), "npm pack", 118, 0, "await_pack")
               /\ UNCHANGED error
          ELSE Reject(Returned("failed"), "JsonFile.mergeAsync failed")
               /\ UNCHANGED appJson

\* lines 118-125: npm pack returns; glob starts.  An npm that does not know
\* --pack-destination succeeds and leaves the archive outside the working
\* directory.
PackReturns ==
    /\ pc = "await_pack"
    /\ UNCHANGED <<options, catalog, changedFiles, templateManifest, appJson,
                   manifest, extraPackages, bareTemplateTarball, installPackages, pending>>
    /\ \E outcome \in {"packed", "elsewhere", "failed"} :
          IF outcome = "failed"
          THEN Reject(Returned("failed"), "npm pack failed")
               /\ UNCHANGED workDirFiles
          ELSE /\ workDirFiles' =
                      IF outcome = "packed" THEN workDirFiles \cup {PackedArchive}
                      ELSE workDirFiles
               /\ Await(Returned("ok"), "glob", 121, 0, "await_glob")
               /\ UNCHANGED error

\* glob(...)[0]: the first match, undefined (0) when there is none
FirstMatch(matches) == IF matches = <<>> THEN 0 ELSE matches[1]

\* a lookup whose result is never tested
TarballMissing_NotTested(tarball) == FALSE

\* line 126: !bareTemplateTarball
TarballMissing(tarball) == tarball = 0

\* lines 120-133: glob returns; its first match is handed to `expo prebuild`
GlobReturns ==
    /\ pc = "await_glob"
    /\ UNCHANGED <<options, catalog, changedFiles, templateManifest, workDirFiles,
                   appJson, manifest, extraPackages, installPackages, pending>>
    /\ \E ok \in BOOLEAN :
          IF ~ok
          THEN Reject(Returned("failed"), "glob failed")
               /\ UNCHANGED bareTemplateTarball
          ELSE LET tarball == FirstMatch(Sorted(workDirFiles)) IN
               IF TarballMissing(tarball)
               THEN Reject(Returned("ok"),
                           "Failed to create expo-template-bare-minimum tarball")
                    /\ UNCHANGED bareTemplateTarball
               ELSE /\ bareTemplateTarball' = tarball
                    /\ Await(Returned("ok"), "expo prebuild", 131, tarball,
                            "await_prebuild")
                    /\ UNCHANGED error

\* lines 130-135: `expo prebuild` returns or throws; finally starts the unlink
PrebuildReturns ==
    /\ pc = "await_prebuild"
    /\ UNCHANGED <<options, catalog, changedFiles, templateManifest, workDirFiles,
                   appJson, manifest, extraPackages, bareTemplateTarball,
                   installPackages, error>>
    /\ \E ok \in BOOLEAN :
          /\ pending' = IF ok THEN "none" ELSE "expo prebuild failed"
          /\ Await(Returned(IF ok THEN "ok" ELSE "failed"),
                   "fs.unlink", 135, bareTemplateTarball, "await_unlink")

\* a finally block that swallows what was thrown inside try
FinallyCompletion_Swallow(thrown, finallyError) == finallyError

\* the error a try/finally statement completes with, when the finally block
\* has run: the finally block's own, else the one thrown inside try
FinallyCompletion(thrown, finallyError) ==
    IF finallyError # "none" THEN finallyError ELSE thrown

\* lines 135-141: the unlink returns; the try statement completes
UnlinkReturns ==
    /\ pc = "await_unlink"
    /\ UNCHANGED <<options, catalog, changedFiles, templateManifest, appJson,
                   manifest, extraPackages, bareTemplateTarball, installPackages>>
    /\ pending' = "none"
    /\ \E ok \in BOOLEAN :
          LET completion ==
                  FinallyCompletion(pending, IF ok THEN "none" ELSE "fs.unlink failed")
          IN /\ workDirFiles' =
                    IF ok THEN workDirFiles \ {bareTemplateTarball} ELSE workDirFiles
             /\ IF completion # "none"
                THEN Reject(Returned(IF ok THEN "ok" ELSE "failed"), completion)
                ELSE /\ Await(Returned("ok"), "getListOfPackagesAsync", 141, 0, "await_list")
                     /\ UNCHANGED error

\* a manifest whose missing dependencies are read as an empty object
KeysOfUndefined_Tolerated(json) == FALSE

\* line 149: Object.keys(projectPackageJson.dependencies) throws a TypeError
\* when the manifest has no dependencies
KeysOfUndefined(json) == ~json.hasDependencies

\* lines 141-164: the catalog listing returns; the manifest is read, rewritten
\* in memory and the write starts
ListReturns ==
    /\ pc = "await_list"
    /\ UNCHANGED <<options, catalog, changedFiles, templateManifest, workDirFiles,
                   appJson, manifest, extraPackages, bareTemplateTarball, pending>>
    /\ \E ok \in BOOLEAN :
          IF ~ok
          THEN Reject(Returned("failed"), "getListOfPackagesAsync failed")
               /\ UNCHANGED installPackages
          ELSE LET log == Append(Returned("ok"), Call("require", 147, 0, "ok")) IN
               IF KeysOfUndefined(manifest)
               THEN Reject(log, "Cannot convert undefined or null to object")
                    /\ UNCHANGED installPackages
               ELSE /\ installPackages' = InstallPackages(manifest, catalog, extraPackages)
                    /\ Await(log, "JsonFile.writeAsync", 164, 0, "await_write")
                    /\ UNCHANGED error

\* lines 164 and 45-47: the write returns; chdir, then yarn starts
WriteReturns ==
    /\ pc = "await_write"
    /\ UNCHANGED <<options, catalog, changedFiles, templateManifest, workDirFiles,
                   appJson, extraPackages, bareTemplateTarball, installPackages, pending>>
    /\ \E ok \in BOOLEAN :
          IF ok
          THEN /\ manifest' =
                      RewrittenManifest(manifest, installPackages, ProjectDir)
               /\ Await(Append(Returned("ok"), Call("process.chdir", 45, 0, "ok")),
                        "yarn", 47, 0, "await_yarn")
               /\ UNCHANGED error
          ELSE Reject(Returned("failed"), "JsonFile.writeAsync failed")
               /\ UNCHANGED manifest

\* lines 47-48: yarn returns
YarnReturns ==
    /\ pc = "await_yarn"
    /\ UNCHANGED <<options, catalog, changedFiles, templateManifest, workDirFiles,
                   appJson, manifest, extraPackages, bareTemplateTarball, installPackages, pending>>
    /\ \E ok \in BOOLEAN :
          IF ok
          THEN /\ calls' = Returned("ok")
               /\ running' = {}
               /\ pc' = "done"
               /\ UNCHANGED error
          ELSE Reject(Returned("failed"), "yarn failed")

----------------------------------------------------------------------------
(* The inputs the model draws from *)

BoundedSeq(S, n) == UNION {[1..k -> S] : k \in 0..n}

\* "/a/b" and "a/b" from their segments' words
RelPath(words) == Join([i \in 1..Len(words) |-> <<words[i]>>], "/")
AbsPath(words) == <<"/">> \o RelPath(words)

Package(name, pathWords, deps) ==
    [packageName |-> name, path |-> AbsPath(pathWords), dependencies |-> deps]

\* a workspace: the entry package, a plain package, two nested packages of
\* the exclusion set, and a package whose package.json has no name
Workspace(expoDeps) ==
    << Package(Name("expo"), <<"repo", "packages", "expo">>, expoDeps),
       Package(Name("expo-camera"), <<"repo", "packages", "expo-camera">>, <<>>),
       Package(Name("workspace-template"),
               <<"repo", "packages", "expo-yarn-workspaces", "workspace-template">>, <<>>),
       Package(Name("first-package"),
               <<"repo", "packages", "expo-yarn-workspaces", "workspace-template",
                 "first-package">>, <<>>),
       Package(<<>>, <<"repo", "packages", "unnamed">>, <<>>) >>

\* the packages of a workspace at the positions of S, in listing order
RECURSIVE Pick(_, _)
Pick(packages, S) ==
    IF S = {} THEN <<>>
    ELSE LET least == CHOOSE x \in S : \A y \in S : x <= y
         IN <<packages[least]>> \o Pick(packages, S \ {least})

\* dependency names of the entry package: keys of an object, hence distinct
DepNames == {Name("expo-camera"), Name("expo-asset"), Name("first-package")}
DepLists == {d \in BoundedSeq(DepNames, MaxDeps) : NoDuplicates(d)}

Catalogs == {Pick(Workspace(d), S) : d \in DepLists, S \in SUBSET (1..5)}

\* repository-relative paths of changed files
ChangedFileUniverse ==
    { RelPath(<<"packages", "expo-camera", "ios", "Foo.m">>),
      RelPath(<<"packages", "expo-camera">>) \o <<"/", ".", ".", "cache">>,
      RelPath(<<"packages", "expo-camera">>),
      RelPath(<<"packages", "expo-yarn-workspaces", "workspace-template",
                "first-package", "index.js">>),
      RelPath(<<"packages", "expo-yarn-workspaces", "workspace-template",
                "first-package">>) \o <<"/", ".", ".", "cache">>,
      RelPath(<<"README.md">>) }

ModeNames == {Name("default"), Name("all"), Name("changed")}

\* explicit --packages strings
ListAlphabet == {",", " ", "expo-camera", "expo-router"}
ExplicitLists == BoundedSeq(ListAlphabet, MaxListLen)

Dependency(name, locator) == [key |-> name, value |-> locator]

\* package.json as the project template leaves it
TemplateManifests ==
    { [exists |-> TRUE, hasDependencies |-> TRUE,
       dependencies |-> << Dependency(Name("expo"), <<"~45.0.0">>),
                           Dependency(Name("react"), <<"17.0.2">>) >>,
       hasResolutions |-> FALSE, resolutions |-> <<>>],
      [exists |-> TRUE, hasDependencies |-> TRUE,
       dependencies |-> << Dependency(Name("react"), <<"17.0.2">>),
                           Dependency(Name("expo-camera"), <<"~12.2.0">>) >>,
       hasResolutions |-> TRUE,
       resolutions |-> << Dependency(Name("react"), <<"17.0.2">>) >>],
      [exists |-> TRUE, hasDependencies |-> FALSE, dependencies |-> <<>>,
       hasResolutions |-> FALSE, resolutions |-> <<>>],
      \* a dependency that already is a local path, with another override
      [exists |-> TRUE, hasDependencies |-> TRUE,
       dependencies |-> << Dependency(Name("expo-camera"),
                                      <<".", ".", "/", "old", "/", "expo-camera">>) >>,
       hasResolutions |-> TRUE,
       resolutions |-> << Dependency(Name("expo-camera"), <<"~12.0.0">>) >>],
      \* a workspace package that no selection names, and a foreign override
      [exists |-> TRUE, hasDependencies |-> TRUE,
       dependencies |-> << Dependency(Name("first-package"), <<"1.0.0">>),
                           Dependency(Name("react"), <<"17.0.2">>) >>,
       hasResolutions |-> TRUE,
       resolutions |-> << Dependency(Name("lodash"), <<"4.17.21">>) >>],
      [exists |-> TRUE, hasDependencies |-> TRUE, dependencies |-> <<>>,
       hasResolutions |-> FALSE, resolutions |-> <<>>] }

Options(nameGiven, name, packages) ==
    [nameGiven |-> nameGiven, name |-> name, packages |-> packages,
     workingDirectory |-> Cwd]

\* the state before action() runs, but for the inputs
InitCommand ==
    /\ appJson = "absent"
    /\ manifest = NoManifest
    /\ pc = "start"
    /\ extraPackages = <<>>
    /\ bareTemplateTarball = 0
    /\ installPackages = <<>>
    /\ pending = "none"
    /\ error = "none"
    /\ calls = <<>>
    /\ running = {}

----------------------------------------------------------------------------
(* The whole command *)

Init ==
    /\ options \in
          {Options(FALSE, <<>>, Name("default")), Options(TRUE, <<>>, Name("default"))}
          \cup {Options(TRUE, Name("app"), p) :
                   p \in ModeNames \cup {<<"expo-router", ",", " ", "expo-camera">>,
                                       <<"expo-camera", ",", "expo-camera">>}}
    /\ catalog \in {Workspace(<<Name("expo-camera"), Name("expo-asset")>>),
                     Pick(Workspace(<<>>), 2..5)}
    /\ changedFiles \in
          {<<RelPath(<<"packages", "expo-camera", "ios", "Foo.m">>)>>,
           <<RelPath(<<"packages", "expo-camera", "ios", "Foo.m">>),
             RelPath(<<"packages", "expo-camera", "package.json">>)>>}
    /\ templateManifest \in TemplateManifests
    /\ workDirFiles \in SUBSET (1..MaxArchive)
    /\ InitCommand

Next ==
    \/ Action
    \/ AllListReturns
    \/ ChangedListReturns
    \/ ChangedFilesReturn
    \/ InitReturns
    \/ MergeReturns
    \/ PackReturns
    \/ GlobReturns
    \/ PrebuildReturns
    \/ UnlinkReturns
    \/ ListReturns
    \/ WriteReturns
    \/ YarnReturns

Spec == Init /\ [][Next]_vars

----------------------------------------------------------------------------
(* Package selection alone, over every catalog, mode, change set and list *)

InitSelect ==
    /\ catalog \in Catalogs
    /\ \E packages \in ModeNames \cup ExplicitLists :
          /\ options = Options(TRUE, Name("app"), packages)
          /\ changedFiles \in
                IF packages = Name("changed")
                THEN BoundedSeq(ChangedFileUniverse, MaxFiles) ELSE {<<>>}
    /\ templateManifest = NoManifest
    /\ workDirFiles = {}
    /\ InitCommand

NextSelect ==
    \/ Action
    \/ AllListReturns
    \/ ChangedListReturns
    \/ ChangedFilesReturn

SpecSelect == InitSelect /\ [][NextSelect]_vars

----------------------------------------------------------------------------
(* Vocabulary of the properties *)

\* the stage a call belongs to, by the source line that makes it
StageOfLine(line) ==
    IF line \in 172..231 THEN "selection"
    ELSE IF line \in 78..89 THEN "scaffold"
    ELSE IF line \in 105..136 THEN "prebuild"
    ELSE IF line \in 138..164 THEN "rewrite"
    ELSE "install"

\* the stages in the order they started
RECURSIVE StagesUpTo(_)
StagesUpTo(n) ==
    IF n = 0 THEN <<>>
    ELSE LET before == StagesUpTo(n - 1)
             stage == StageOfLine(calls[n].line)
         IN IF before # <<>> /\ before[Len(before)] = stage THEN before
            ELSE Append(before, stage)

StagesStarted == StagesUpTo(Len(calls))

IsPrefix(s, t) == Len(s) <= Len(t) /\ SubSeq(t, 1, Len(s)) = s

Called(op) == \E i \in 1..Len(calls) : calls[i].op = op

CallFailed(op) == \E i \in 1..Len(calls) : calls[i].op = op /\ calls[i].result = "failed"

\* getExtraPackagesAsync has returned: action() went on to create the project
SelectReturned == Called("expo init")

\* prebuildProjectAsync was entered, and has returned or thrown
PrebuildEntered == Called("JsonFile.mergeAsync")
PrebuildReturned == Called("process.chdir")
PrebuildThrew == PrebuildEntered /\ pc = "failed" /\ ~PrebuildReturned

\* the dependency names the entry package declares, read off the catalog
EntryDependencies ==
    LET i == CHOOSE k \in 1..Len(catalog) : catalog[k].packageName = Name("expo")
    IN catalog[i].dependencies

\* the names of the result that follow the floor
ExtrasOfResult == SubSeq(extraPackages, Len(EntryDependencies) + 1, Len(extraPackages))

\* the changed file lies underneath the package's directory
LiesUnder(file, pkg) ==
    LET f == NormalizeSegments(Split(RootDir \o <<"/">> \o file, "/"), <<>>)
        d == NormalizeSegments(Split(pkg.path, "/"), <<>>)
    IN Len(f) > Len(d) /\ SubSeq(f, 1, Len(d)) = d

----------------------------------------------------------------------------
(* Properties *)

\* C1: once prebuildProjectAsync has returned or thrown, no archive
\* expo-template-bare-minimum-*.tgz remains in the working directory, on every
\* exit path and for every initial content of the working directory.
C1_ArchiveCleanup ==
    (PrebuildReturned \/ PrebuildThrew) => workDirFiles = {}

\* C2: whenever `expo prebuild` fails, the error that reaches the caller is the
\* prebuild error, also when the unlink fails too, and it reaches the caller
\* only after the unlink has been attempted.
C2_CleanupNeverMasks ==
    (CallFailed("expo prebuild") /\ pc = "failed") =>
        error = "expo prebuild failed" /\ Called("fs.unlink")

\* C3, as the spec states it: the stages start in the order scaffold, prebuild,
\* selection, manifest rewrite, install, each after the previous one has
\* completed, never two at a time.
C3_SpecStageOrder ==
    /\ IsPrefix(StagesStarted, <<"scaffold", "prebuild", "selection", "rewrite", "install">>)
    /\ Cardinality(running) <= 1
    /\ \A i \in 1..(Len(calls) - 1) : calls[i].result # "pending"

\* C3, amended: the stages start in the order selection, scaffold, prebuild,
\* manifest rewrite, install; a call is made only when every earlier call has
\* returned, and never are two calls in flight.
C3_StageOrder ==
    /\ IsPrefix(StagesStarted, <<"selection", "scaffold", "prebuild", "rewrite", "install">>)
    /\ Cardinality(running) <= 1
    /\ \A i \in 1..(Len(calls) - 1) : calls[i].result # "pending"

\* a run in which all five stages ran to the end
C3_Witness ==
    /\ pc = "done"
    /\ StagesStarted = <<"selection", "scaffold", "prebuild", "rewrite", "install">>

\* C4: a run invoked with an empty or absent name fails with the missing-name
\* error, and has made no call to any collaborator (filesystem, catalog,
\* version control, external process) and changed no file.
C4_MissingName ==
    ((~options.nameGiven \/ options.name = <<>>) /\ pc # "start") =>
        /\ pc = "failed"
        /\ error = "Missing project name"
        /\ calls = <<>>
        /\ running = {}
        /\ manifest = NoManifest
        /\ appJson = "absent"

\* a run with the empty name that has failed
C4_Witness ==
    options.nameGiven /\ options.name = <<>> /\ error = "Missing project name"

\* what a failure leaves behind: after a failed call no call of a later stage
\* appears (only the unlink of the archive follows a failed `expo prebuild`),
\* the run is not done, and it has failed as soon as nothing is in flight
C5_Aborted ==
    /\ \A i \in 1..Len(calls) :
          calls[i].result \in {"failed", "absent"} =>
              /\ \A j \in (i + 1)..Len(calls) :
                    calls[i].op = "expo prebuild" /\ calls[j].op = "fs.unlink"
              /\ pc # "done"
              /\ (running = {} => pc = "failed")
    /\ (error # "none" => pc = "failed" /\ running = {})
    /\ (pc = "failed" => error # "none")
    /\ (pc = "failed" => \A i \in 1..Len(calls) : calls[i].result # "pending")

\* C5: once any stage has failed, no later stage ever starts in that run and
\* the run ends in failure, never in success; after a failed `expo prebuild`
\* the manifest is not rewritten and install is not run; a rejected run makes
\* no further step.
C5_AbortOnFailure == [](C5_Aborted) /\ [][pc # "failed"]_vars

\* a run whose `expo prebuild` failed, whose archive was unlinked, and which
\* then failed without rewriting the manifest or installing
C5_Witness ==
    /\ pc = "failed"
    /\ CallFailed("expo prebuild")
    /\ calls[Len(calls)].op = "fs.unlink" /\ calls[Len(calls)].result = "ok"
    /\ manifest = templateManifest

\* C6: in every mode the result of getExtraPackagesAsync starts with the
\* dependency names of `expo`, in their declared order, and goes on with the
\* names the mode produced, in the order it produced them.
C6_UnionPolicy ==
    SelectReturned =>
        /\ Len(extraPackages) >= Len(EntryDependencies)
        /\ \A i \in 1..Len(EntryDependencies) : extraPackages[i] = EntryDependencies[i]
        /\ ExtrasOfResult = ModePackages(options.packages, catalog, changedFiles)

\* a non-default mode with a non-empty floor and non-empty extras
C6_Witness ==
    /\ SelectReturned
    /\ options.packages = Name("changed")
    /\ EntryDependencies # <<>>
    /\ ExtrasOfResult # <<>>

\* C7, as the spec states it: the sequence getExtraPackagesAsync returns holds
\* no name twice.
C7_SelectDeduplicated ==
    SelectReturned => NoDuplicates(extraPackages)

\* C7, amended: the sequence may repeat a name; the packages to install that
\* prebuildProjectAsync builds from it (installPackages) hold no package twice.
C7_InstallDeduplicated ==
    /\ NoDuplicates(installPackages)
    /\ NoDuplicates(PackageNames(installPackages))

\* the selection repeats a name and the install set has been built from it
C7_Witness ==
    /\ pc = "await_write"
    /\ ~NoDuplicates(extraPackages)
    /\ installPackages # <<>>

\* C8 (completeness): in `changed` mode, for every changed file and every
\* catalog package, if the file lies underneath the package's path then the
\* package's name is in the result.
C8_EveryOwnerFound ==
    (SelectReturned /\ options.packages = Name("changed")) =>
        \A i \in 1..Len(changedFiles) : \A k \in 1..Len(catalog) :
            LiesUnder(changedFiles[i], catalog[k]) =>
                Includes(extraPackages, catalog[k].packageName)

\* C9: every name returned in `default` mode is a dependency of the entry
\* package, and none is a name of the exclusion set.
C9_DefaultMode ==
    (SelectReturned /\ options.packages = Name("default")) =>
        \A i \in 1..Len(extraPackages) :
            /\ Includes(EntryDependencies, extraPackages[i])
            /\ ~Includes(EXCLUDED_PACKAGES, extraPackages[i])

\* C10: the result of `all` mode holds every non-empty catalog name outside
\* the exclusion set, no empty name, and no name of the exclusion set.
C10_AllMode ==
    (SelectReturned /\ options.packages = Name("all")) =>
        /\ \A k \in 1..Len(catalog) :
              (catalog[k].packageName # <<>>
                 /\ ~Includes(EXCLUDED_PACKAGES, catalog[k].packageName))
              => Includes(extraPackages, catalog[k].packageName)
        /\ \A i \in 1..Len(extraPackages) :
              /\ extraPackages[i] # <<>>
              /\ ~Includes(EXCLUDED_PACKAGES, extraPackages[i])

----------------------------------------------------------------------------
(* Vocabulary of the manifest properties *)

\* the manifest has been written back: action() went on to chdir
RewriteDone == Called("process.chdir")

InCatalog(name) == \E k \in 1..Len(catalog) : catalog[k].packageName = name

PackageNamed(name) ==
    catalog[CHOOSE k \in 1..Len(catalog) : catalog[k].packageName = name]

\* the names the rewrite is to point at local paths: declared or selected,
\* and in the catalog
EligibleNames ==
    {n \in Range(Keys(templateManifest.dependencies)) \cup Range(extraPackages) :
        InCatalog(n)}

\* a package's path relative to the project directory /cwd/<name>, which
\* shares no directory with the repository: two levels up, then the path
LocalPathOf(pkg) == <<".", ".", "/", ".", ".">> \o pkg.path

\* the object holds the same key with the same value as before
Kept(before, after, key) ==
    HasKey(after, key) /\ Get(after, key) = Get(before, key)

\* C11: once the manifest is rewritten, every eligible name has the same value
\* in dependencies and in resolutions, the package's path relative to the
\* project directory, whatever either entry held before.
C11_MirroredOverrides ==
    RewriteDone =>
        /\ manifest.hasResolutions
        /\ \A n \in EligibleNames :
              /\ HasKey(manifest.dependencies, n)
              /\ HasKey(manifest.resolutions, n)
              /\ Get(manifest.dependencies, n) = LocalPathOf(PackageNamed(n))
              /\ Get(manifest.resolutions, n) = Get(manifest.dependencies, n)

\* a rewrite of a name whose two entries held different values before
C11_Witness ==
    /\ RewriteDone
    /\ \E n \in EligibleNames :
          /\ HasKey(templateManifest.resolutions, n)
          /\ HasKey(templateManifest.dependencies, n)
          /\ Get(templateManifest.resolutions, n) # Get(templateManifest.dependencies, n)

\* C12, as the spec states it: every dependencies key absent from the
\* selector's output keeps the value it had, also when it names a catalog
\* package.
C12_UnselectedUntouched ==
    RewriteDone =>
        \A key \in Range(Keys(templateManifest.dependencies)) :
            ~Includes(extraPackages, key) =>
                Kept(templateManifest.dependencies, manifest.dependencies, key)

\* C12, amended: every dependencies key that is absent from the selector's
\* output and names no catalog package keeps the value it had.
C12_ForeignUntouched ==
    RewriteDone =>
        \A key \in Range(Keys(templateManifest.dependencies)) :
            (~Includes(extraPackages, key) /\ ~InCatalog(key)) =>
                Kept(templateManifest.dependencies, manifest.dependencies, key)

\* a rewrite that changed some entry and left a foreign, unselected key alone
C12_Witness ==
    /\ RewriteDone
    /\ manifest.dependencies # templateManifest.dependencies
    /\ \E key \in Range(Keys(templateManifest.dependencies)) :
          ~Includes(extraPackages, key) /\ ~InCatalog(key)

\* C13: the rewrite adds to dependencies and resolutions no key that is absent
\* from both the manifest's dependencies and the selected names, adds no key
\* that is no catalog package, and leaves every entry of a non-eligible name
\* in dependencies and resolutions with its value.
C13_NothingElse ==
    RewriteDone =>
        /\ \A key \in Range(Keys(manifest.dependencies)) \cup Range(Keys(manifest.resolutions)) :
              \/ key \in EligibleNames
              \/ /\ HasKey(manifest.dependencies, key)
                        => HasKey(templateManifest.dependencies, key)
                 /\ HasKey(manifest.resolutions, key)
                        => HasKey(templateManifest.resolutions, key)
        /\ \A key \in Range(Keys(templateManifest.dependencies)) \ EligibleNames :
              Kept(templateManifest.dependencies, manifest.dependencies, key)
        /\ \A key \in Range(Keys(templateManifest.resolutions)) \ EligibleNames :
              Kept(templateManifest.resolutions, manifest.resolutions, key)

\* a rewrite over a manifest with a foreign override, with selected names that
\* the catalog does not hold
C13_Witness ==
    /\ RewriteDone
    /\ Range(Keys(templateManifest.resolutions)) \ EligibleNames # {}
    /\ \E n \in Range(extraPackages) : ~InCatalog(n)
    /\ EligibleNames # {}

----------------------------------------------------------------------------
(* Vocabulary of the explicit list *)

\* the --packages string names no mode
IsExplicitList == options.packages \notin ModeNames

\* the entries of the string: the stretches a..b (empty when b = a - 1) that
\* hold no comma and are bounded by commas or by the ends of the string
EntryBounds ==
    LET str == options.packages IN
    {ab \in (1..(Len(str) + 1)) \X (0..Len(str)) :
        /\ ab[2] >= ab[1] - 1
        /\ (ab[1] = 1 \/ str[ab[1] - 1] = ",")
        /\ (ab[2] = Len(str) \/ str[ab[2] + 1] = ",")
        /\ \A i \in ab[1]..ab[2] : str[i] # ","}

\* an entry without the whitespace around it
TrimmedEntry(ab) ==
    LET str == options.packages
        inked == {i \in ab[1]..ab[2] : str[i] # " "}
    IN IF inked = {} THEN <<>>
       ELSE SubSeq(str, CHOOSE i \in inked : \A j \in inked : i <= j,
                        CHOOSE i \in inked : \A j \in inked : i >= j)

TrimmedEntries == {TrimmedEntry(ab) : ab \in EntryBounds}

\* C14: for a --packages string that names no mode, the set of names returned
\* is exactly the entry package's dependency names united with the
\* whitespace-trimmed entries of the string (an empty entry, as before a
\* trailing comma, being the empty name).
C14_ExplicitList ==
    (SelectReturned /\ IsExplicitList) =>
        Range(extraPackages) = Range(EntryDependencies) \cup TrimmedEntries

\* a list with whitespace to trim, a named entry and an empty entry
C14_Witness ==
    /\ SelectReturned
    /\ IsExplicitList
    /\ " " \in Range(options.packages)
    /\ <<>> \in TrimmedEntries
    /\ \E e \in TrimmedEntries : e # <<>>
    /\ EntryDependencies # <<>>

----------------------------------------------------------------------------
(* The archive *)

LastCall == calls[Len(calls)]

\* glob has returned and the code made no call after it: it found no archive
LookupFoundNothing ==
    calls # <<>> /\ LastCall.op = "glob" /\ LastCall.result = "ok"

ArchiveNotFound == "Failed to create expo-template-bare-minimum tarball"

\* what a failed lookup leaves behind
C15_NotFound ==
    /\ LookupFoundNothing =>
          /\ pc = "failed"
          /\ error = ArchiveNotFound
          /\ workDirFiles = {}
    /\ error = ArchiveNotFound =>
          /\ LookupFoundNothing
          /\ ~Called("expo prebuild")
          /\ ~Called("fs.unlink")
          /\ ~Called("JsonFile.writeAsync")
          /\ manifest = templateManifest

\* the step in which glob returns without failing, with no archive in the
\* working directory
C15_LookupStep ==
    (pc = "await_glob" /\ workDirFiles = {} /\ calls'[Len(calls)].result = "ok") =>
        /\ error' = ArchiveNotFound
        /\ pc' = "failed"
        /\ workDirFiles' = workDirFiles
        /\ Len(calls') = Len(calls)

\* C15: if after the pack step the working directory holds no archive, then
\* prebuild fails with the archive-not-found error, `expo prebuild` is never
\* invoked, no file is deleted and the manifest is not rewritten.
C15_ArchiveNotFound == [](C15_NotFound) /\ [][C15_LookupStep]_vars

\* a run whose npm pack succeeded and left nothing in the working directory
C15_Witness ==
    /\ error = ArchiveNotFound
    /\ \E i \in 1..Len(calls) : calls[i].op = "npm pack" /\ calls[i].result = "ok"

----------------------------------------------------------------------------
(* The manifest without dependencies, nested packages *)

KeysTypeError == "Cannot convert undefined or null to object"

\* C16: if the project manifest has no `dependencies` key, the manifest rewrite
\* fails with an error, the manifest on disk stays as it was (nothing is
\* written) and install is not run.
C16_NoDependencies ==
    (Called("require") /\ ~templateManifest.hasDependencies) =>
        /\ pc = "failed"
        /\ error = KeysTypeError
        /\ manifest = templateManifest
        /\ ~Called("JsonFile.writeAsync")
        /\ ~Called("process.chdir")
        /\ ~Called("yarn")

\* a run that read a manifest without dependencies
C16_Witness ==
    Called("require") /\ ~templateManifest.hasDependencies /\ error = KeysTypeError

\* the names of the `changed` result that the change set contributed
ChangeSet == Range(ExtrasOfResult)

\* C17: in `changed` mode, a changed file that lies inside the paths of two
\* catalog packages puts the names of both in the change set; a package that
\* no changed file lies inside (the path is the package's own, or outside it)
\* is not in the change set.
C17_NestedPackages ==
    (SelectReturned /\ options.packages = Name("changed")) =>
        /\ \A i \in 1..Len(changedFiles) : \A k, m \in 1..Len(catalog) :
              (k # m /\ LiesUnder(changedFiles[i], catalog[k])
                     /\ LiesUnder(changedFiles[i], catalog[m]))
              => {catalog[k].packageName, catalog[m].packageName} \subseteq ChangeSet
        /\ \A k \in 1..Len(catalog) :
              (\A i \in 1..Len(changedFiles) : ~LiesUnder(changedFiles[i], catalog[k]))
              => catalog[k].packageName \notin ChangeSet

----------------------------------------------------------------------------
(* The entry package, the archive's identity *)

EntryNotFound == "Cannot find the expo package"

\* C18: in every mode, when the catalog holds no package `expo`, a run with a
\* name fails with the entry-package-not-found error before the catalog is
\* listed or version control is queried, with no project scaffolded, no
\* archive packed and no manifest written.
C18_EntryMissing ==
    (~InCatalog(Name("expo")) /\ options.nameGiven /\ options.name # <<>>
        /\ pc # "start") =>
        /\ pc = "failed"
        /\ error = EntryNotFound
        /\ Len(calls) = 1 /\ calls[1].op = "getPackageByName"
        /\ ~Called("getListOfPackagesAsync")
        /\ ~Called("Git.getChangedFilesAsync")
        /\ ~Called("expo init")
        /\ ~Called("npm pack")
        /\ ~Called("JsonFile.writeAsync")
        /\ manifest = NoManifest
        /\ appJson = "absent"

\* a run in `changed` mode that failed for want of the entry package
C18_Witness ==
    error = EntryNotFound /\ options.packages = Name("changed")

\* C19: the archive handed to `expo prebuild` is the one this run's npm pack
\* produced, it is handed over once, and the file unlinked afterwards is that
\* same file, whatever archives the working directory held before the run.
C19_ArchiveIdentity ==
    /\ \A i \in 1..Len(calls) :
          calls[i].op = "expo prebuild" => calls[i].arg = PackedArchive
    /\ Cardinality({i \in 1..Len(calls) : calls[i].op = "expo prebuild"}) <= 1
    /\ \A i \in 1..Len(calls) :
          calls[i].op = "fs.unlink" =>
              \E j \in 1..(i - 1) :
                  calls[j].op = "expo prebuild" /\ calls[j].arg = calls[i].arg

====
